---- MODULE Spec2Model ----
(***************************************************************************)
(* reddit_stock_analyzer: src/stock_sentiment.py                           *)
(*                                                                         *)
(* StockSentimentAnalyzer.get_reddit_posts / analyze_sentiment /           *)
(* get_stock_data / predict_trend and the report driver main().            *)
(*                                                                         *)
(* The sentiment scores are Python floats (IEEE-754 binary64).  They are   *)
(* modelled bit-exactly: a float is a sign and a magnitude, the magnitude  *)
(* a fixed-point natural number in units of 2^-FracBits held in NumLimbs   *)
(* limbs of LimbBits bits (TLC's integers are 32 bits wide).  Every         *)
(* float operation computes the exact result and rounds it to MantBits     *)
(* significant bits, ties to even, as the hardware does.                   *)
(***************************************************************************)
EXTENDS Integers, Sequences, FiniteSets, TLC

(***************************************************************************)
(* Multi-limb naturals                                                     *)
(***************************************************************************)
LimbBits == 20
NumLimbs == 7
FracBits == 120
MantBits == 53

Base == 2^LimbBits

NatZero == [i \in 1..NumLimbs |-> 0]

RECURSIVE AddLimbs(_, _, _, _)
AddLimbs(a, b, i, c) ==
    IF i > NumLimbs THEN <<>>
    ELSE LET s == a[i] + b[i] + c
         IN  <<s % Base>> \o AddLimbs(a, b, i + 1, s \div Base)

NatAdd(a, b) == AddLimbs(a, b, 1, 0)

RECURSIVE SubLimbs(_, _, _, _)
SubLimbs(a, b, i, br) ==
    IF i > NumLimbs THEN <<>>
    ELSE LET s == a[i] - b[i] - br
         IN  IF s < 0 THEN <<s + Base>> \o SubLimbs(a, b, i + 1, 1)
                      ELSE <<s>> \o SubLimbs(a, b, i + 1, 0)

\* a - b for a >= b
NatSub(a, b) == SubLimbs(a, b, 1, 0)

RECURSIVE CmpLimbs(_, _, _)
CmpLimbs(a, b, i) ==
    IF i = 0 THEN 0
    ELSE IF a[i] > b[i] THEN 1
    ELSE IF a[i] < b[i] THEN -1
    ELSE CmpLimbs(a, b, i - 1)

\* -1, 0, 1 as a < b, a = b, a > b
NatCmp(a, b) == CmpLimbs(a, b, NumLimbs)

RECURSIVE MulLimbs(_, _, _, _)
MulLimbs(a, k, i, c) ==
    IF i > NumLimbs THEN <<>>
    ELSE LET s == a[i] * k + c
         IN  <<s % Base>> \o MulLimbs(a, k, i + 1, s \div Base)

\* a * k for a small k
NatMulSmall(a, k) == MulLimbs(a, k, 1, 0)

RECURSIVE DivLimbs(_, _, _, _)
DivLimbs(a, n, i, r) ==
    IF i = 0 THEN [q |-> <<>>, r |-> r]
    ELSE LET cur  == r * Base + a[i]
             rest == DivLimbs(a, n, i - 1, cur % n)
         IN  [q |-> rest.q \o <<cur \div n>>, r |-> rest.r]

\* quotient and remainder of a by a small n
NatDivSmall(a, n) == DivLimbs(a, n, NumLimbs, 0)

NatPow2(k) ==
    [i \in 1..NumLimbs |-> IF i = (k \div LimbBits) + 1 THEN 2^(k % LimbBits) ELSE 0]

NatBit(a, k) == (a[(k \div LimbBits) + 1] \div 2^(k % LimbBits)) % 2

\* a with its d low bits cleared
NatClearLow(a, d) ==
    [i \in 1..NumLimbs |->
        IF i < (d \div LimbBits) + 1 THEN 0
        ELSE IF i = (d \div LimbBits) + 1
             THEN (a[i] \div 2^(d % LimbBits)) * 2^(d % LimbBits)
             ELSE a[i]]

RECURSIVE IntBitLen(_)
IntBitLen(x) == IF x = 0 THEN 0 ELSE 1 + IntBitLen(x \div 2)

RECURSIVE TopLimb(_, _)
TopLimb(a, i) == IF i = 0 THEN 0 ELSE IF a[i] # 0 THEN i ELSE TopLimb(a, i - 1)

NatBitLen(a) ==
    LET t == TopLimb(a, NumLimbs)
    IN  IF t = 0 THEN 0 ELSE (t - 1) * LimbBits + IntBitLen(a[t])

(***************************************************************************)
(* binary64 arithmetic                                                     *)
(***************************************************************************)
\* The exact magnitude a (plus a nonzero fraction below its last bit when
\* sticky) rounded to MantBits significant bits, ties to even.
RoundMag(a, sticky) ==
    LET d == NatBitLen(a) - MantBits
    IN  IF d <= 0 THEN a
        ELSE LET half == NatPow2(d - 1)
                 up   == IF sticky \/ NatBit(a, d) = 1
                         THEN half
                         ELSE NatSub(half, NatPow2(0))
             IN  NatClearLow(NatAdd(a, up), d)

FZero == [neg |-> FALSE, mag |-> NatZero]

Float(neg, mag) == IF mag = NatZero THEN FZero ELSE [neg |-> neg, mag |-> mag]

\* x + y
FAdd(x, y) ==
    IF x.neg = y.neg
    THEN Float(x.neg, RoundMag(NatAdd(x.mag, y.mag), FALSE))
    ELSE IF NatCmp(x.mag, y.mag) >= 0
         THEN Float(x.neg, RoundMag(NatSub(x.mag, y.mag), FALSE))
         ELSE Float(y.neg, RoundMag(NatSub(y.mag, x.mag), FALSE))

\* x / n for a count n
FDivCount(x, n) ==
    LET d == NatDivSmall(x.mag, n)
    IN  Float(x.neg, RoundMag(d.q, d.r # 0))

\* -1, 0, 1 as x < y, x = y, x > y
FCmp(x, y) ==
    IF x.neg # y.neg THEN (IF x.neg THEN -1 ELSE 1)
    ELSE IF x.neg THEN NatCmp(y.mag, x.mag) ELSE NatCmp(x.mag, y.mag)

FGt(x, y) == FCmp(x, y) = 1
FLt(x, y) == FCmp(x, y) = -1

\* The float nearest to t/10: what Python reads from a literal such as 0.2,
\* and what round(x, 4) returns for a score of t tenths.
NearestToTenths(t) ==
    LET a == IF t < 0 THEN -t ELSE t
        d == NatDivSmall(NatMulSmall(NatPow2(FracBits), a), 10)
    IN  Float(t < 0, RoundMag(d.q, d.r # 0))

\* The floats of -1.0, -0.9, ... 1.0, computed once.
TenthsTable == [t \in -10..10 |-> NearestToTenths(t)]

FromTenths(t) == TenthsTable[t]


(***************************************************************************)
(* Text: a stock symbol is a sequence of characters                        *)
(***************************************************************************)
LowerChars == <<"a", "e", "g", "l", "m", "p">>
UpperChars == <<"A", "E", "G", "L", "M", "P">>

\* str.upper() on one character
UpperChar(c) ==
    IF \E i \in DOMAIN LowerChars : LowerChars[i] = c
    THEN UpperChars[CHOOSE i \in DOMAIN LowerChars : LowerChars[i] = c]
    ELSE c

\* str.upper()
Upper(s) == [i \in DOMAIN s |-> UpperChar(s[i])]

\* f'{stock_symbol} stock'
Query(stock_symbol) == stock_symbol \o <<" ", "s", "t", "o", "c", "k">>

\* What the user may type at the prompt.
InputLines == {<<>>, <<"g", "m", "e">>, <<"G", "M", "E">>}

(***************************************************************************)
(* The external collaborators: Reddit (praw), VADER (nltk), yfinance       *)
(***************************************************************************)
\* The VADER compound score of a text, in tenths.
Lexicon(text) ==
    CASE text = "" -> 0
      [] text = "the price moved today" -> 0
      [] text = "slightly up" -> 1
      [] text = "looks good" -> 2
      [] text = "solid quarter" -> 3
      [] text = "looks weak" -> -2
      [] text = "great earnings, huge rally" -> 6
      [] text = "terrible crash, selling everything" -> -6
      [] text = "DD: to the moon" -> 6
      [] text = "Why I sold" -> -3
      [] text = "Daily discussion" -> 0

\* A submission as the Reddit API delivers it.
Submission(title, selftext, score, created_utc) ==
    [title |-> title, selftext |-> selftext, score |-> score,
     created_utc |-> created_utc]

SelfPost(text) == Submission("DD: to the moon", text, 5, 1700000000)

\* A link post: its selftext is empty.
LinkPost == Submission("Daily discussion", "", 1200, 1700086399)

\* The same body under another title, vote count and creation time.
Retitled(sub) == Submission("Why I sold", sub.selftext, sub.score + 37,
                            sub.created_utc + 86400)

\* The same body score in other words.
Reworded(sub) ==
    Submission(sub.title,
               IF sub.selftext = "" THEN "the price moved today"
               ELSE IF sub.selftext = "the price moved today" THEN ""
               ELSE sub.selftext,
               sub.score, sub.created_utc)

MaxHead == 3
MaxBatch == 3

SeqsUpTo(S, n) == UNION {[1..k -> S] : k \in 0..n}

MainTexts == {"looks good", "looks weak", "great earnings, huge rally",
              "terrible crash, selling everything"}

\* The posts matching a query, newest first: some self posts, then a run of
\* link posts.
FillCounts == {0, 3, 98}
Matches == {[head |-> h, fill |-> f] :
              h \in SeqsUpTo({SelfPost(t) : t \in MainTexts}, MaxHead),
              f \in FillCounts}
Listing(m) == m.head \o [i \in 1..m.fill |-> LinkPost]

\* subreddit.search(query, limit=limit): the listing stops after limit
\* submissions.
Search(listing, limit) ==
    IF limit <= 0 THEN <<>>
    ELSE SubSeq(listing, 1, IF Len(listing) < limit THEN Len(listing) ELSE limit)

SearchErrors == {[type |-> "ResponseException", msg |-> "received 401 HTTP response"],
                 [type |-> "RequestException", msg |-> "error with request"]}
HistoryErrors == {[type |-> "YFRateLimitError", msg |-> "Too Many Requests"]}
ConstructErrors == {[type |-> "MissingRequiredAttributeException",
                     msg |-> "Required configuration setting 'client_id' missing"],
                    [type |-> "LookupError", msg |-> "Resource vader_lexicon not found"]}
EOFError == [type |-> "EOFError", msg |-> "EOF when reading a line"]
KeyErrorText == [type |-> "KeyError", msg |-> "'text'"]

Candle(close) == [close |-> close]
Histories == {<<>>, <<Candle(150), Candle(90)>>}

DefaultLimit == 100
SampleLimit == 5
DefaultDays == 30

(***************************************************************************)
(* StockSentimentAnalyzer                                                  *)
(***************************************************************************)
\* datetime.fromtimestamp
FromTimestamp(t) == [day |-> t \div 86400, second |-> t % 86400]

\* get_reddit_posts without limit=limit in the search call: praw's own default.
get_reddit_posts_default_limit(listing, limit) ==
    LET found == Search(listing, DefaultLimit)
    IN  [i \in DOMAIN found |->
            [title |-> found[i].title, text |-> found[i].selftext,
             score |-> found[i].score,
             created_utc |-> FromTimestamp(found[i].created_utc)]]

\* get_reddit_posts: one row per submission the search yields, in its order.
get_reddit_posts(listing, limit) ==
    LET found == Search(listing, limit)
    IN  [i \in DOMAIN found |->
            [title |-> found[i].title, text |-> found[i].selftext,
             score |-> found[i].score,
             created_utc |-> FromTimestamp(found[i].created_utc)]]

\* pd.DataFrame(posts): a frame built from no rows has no columns.
Columns(df) ==
    IF Len(df) = 0 THEN {} ELSE {"title", "text", "score", "created_utc"}

\* analyze_sentiment
analyze_sentiment(text) == FromTenths(Lexicon(text))

\* The sentiment column taken from the titles instead of the body texts.
WithSentimentOfTitle(df) ==
    [i \in DOMAIN df |->
        [title |-> df[i].title, text |-> df[i].text, score |-> df[i].score,
         created_utc |-> df[i].created_utc,
         sentiment |-> analyze_sentiment(df[i].title)]]

\* posts_df['sentiment'] = posts_df['text'].apply(self.analyze_sentiment)
WithSentiment(df) ==
    [i \in DOMAIN df |->
        [title |-> df[i].title, text |-> df[i].text, score |-> df[i].score,
         created_utc |-> df[i].created_utc,
         sentiment |-> analyze_sentiment(df[i].text)]]

SentimentColumn(df) == [i \in DOMAIN df |-> df[i].sentiment]

RECURSIVE AddFrom(_, _, _)
AddFrom(res, a, i) ==
    IF i > Len(a) THEN res ELSE AddFrom(FAdd(res, a[i]), a, i + 1)

RECURSIVE Lane(_, _, _, _)
Lane(a, j, k, blocks) ==
    IF k >= blocks THEN a[j]
    ELSE FAdd(Lane(a, j, k + 1, blocks), a[8 * (blocks - k) + j])

\* The float64 sum as numpy computes it for up to 128 values: one after
\* another below 8 values, else eight lanes that are added pairwise, the
\* values left over one after another.
FSum(a) ==
    IF Len(a) < 8 THEN AddFrom(FZero, a, 1)
    ELSE LET blocks == Len(a) \div 8
             r(j)   == Lane(a, j, 1, blocks)
         IN  AddFrom(FAdd(FAdd(FAdd(r(1), r(2)), FAdd(r(3), r(4))),
                          FAdd(FAdd(r(5), r(6)), FAdd(r(7), r(8)))),
                     a, 8 * blocks + 1)

\* Series.mean() of a non-empty column
Mean(a) == FDivCount(FSum(a), Len(a))

Bullish == "Bullish (Detected - Positive sentiment)"
Bearish == "Bearish (Detected - Negative sentiment)"
Neutral == "Neutral (Detected - Mixed sentiment)"

\* The thresholds taken inclusive: >= 0.2 and <= -0.2.
ClassifyInclusive(avg_sentiment) ==
    IF ~FLt(avg_sentiment, FromTenths(2)) THEN Bullish
    ELSE IF ~FGt(avg_sentiment, FromTenths(-2)) THEN Bearish
    ELSE Neutral

\* if avg_sentiment > 0.2 ... elif avg_sentiment < -0.2 ... else ...
Classify(avg_sentiment) ==
    IF FGt(avg_sentiment, FromTenths(2)) THEN Bullish
    ELSE IF FLt(avg_sentiment, FromTenths(-2)) THEN Bearish
    ELSE Neutral

\* predict_trend as one call: what it returns or raises, given what the two
\* external calls deliver.
predict_trend(listing, history) ==
    LET posts_df == get_reddit_posts(listing, DefaultLimit)
    IN  IF "text" \notin Columns(posts_df)
        THEN [exc |-> <<KeyErrorText>>, label |-> "", avg |-> <<>>]
        ELSE LET scored == WithSentiment(posts_df)
                 avg    == Mean(SentimentColumn(scored))
             IN  IF history.ok
                 THEN [exc |-> <<>>, label |-> Classify(avg), avg |-> <<avg>>]
                 ELSE [exc |-> <<history.err>>, label |-> "", avg |-> <<avg>>]

\* f"{x:.2f}": the sign and the hundredths, the exact value rounded half to
\* even.
Format2(x) ==
    LET m    == NatMulSmall(x.mag, 100)
        half == NatPow2(FracBits - 1)
        up   == IF NatBit(m, FracBits) = 1 THEN half
                ELSE NatSub(half, NatPow2(0))
        r    == NatAdd(m, up)
        k    == FracBits \div LimbBits
        s    == FracBits % LimbBits
    IN  [neg |-> x.neg,
         hundredths |-> (r[k + 1] \div 2^s)
                        + (IF k + 2 <= NumLimbs THEN r[k + 2] * 2^(LimbBits - s) ELSE 0)]

(***************************************************************************)
(* main(): one run of the report driver                                    *)
(***************************************************************************)
VARIABLES
    pc,             \* where main() is
    stock_symbol,   \* main's stock_symbol
    matching,       \* the posts matching the query on Reddit, <<>> until searched
    requests,       \* the external requests issued so far, with their outcomes
    posts_df,       \* predict_trend's posts_df
    avg_sentiment,  \* predict_trend's avg_sentiment: <<>> or <<a float>>
    stock_data,     \* predict_trend's stock_data
    prediction,     \* main's prediction: "" until predict_trend has returned
    posts,          \* main's posts (the sample)
    row,            \* the sample rows printed so far
    output,         \* the lines printed
    exc,            \* the exception main's except clause caught: <<>> or <<e>>
    escaped,        \* the exception that left main: <<>> or <<e>>
    calls           \* two separate predict_trend calls, side by side

vars == <<pc, stock_symbol, matching, requests, posts_df, avg_sentiment,
          stock_data, prediction, posts, row, output, exc, escaped, calls>>

mainVars == <<pc, stock_symbol, matching, requests, posts_df, avg_sentiment,
              stock_data, prediction, posts, row, output, exc, escaped>>

SearchRequest(symbol, limit, outcome) ==
    [api |-> "search", query |-> Query(symbol), limit |-> limit, outcome |-> outcome]

HistoryRequest(symbol, outcome) ==
    [api |-> "history", query |-> symbol, limit |-> DefaultDays, outcome |-> outcome]

Ok == [type |-> "ok", msg |-> ""]

Init ==
    /\ pc = "construct"
    /\ stock_symbol = <<>>
    /\ matching = <<>>
    /\ requests = <<>>
    /\ posts_df = <<>>
    /\ avg_sentiment = <<>>
    /\ stock_data = <<>>
    /\ prediction = ""
    /\ posts = <<>>
    /\ row = 0
    /\ output = <<>>
    /\ exc = <<>>
    /\ escaped = <<>>
    /\ calls = <<>>

\* An exception raised inside main's try block reaches its except clause.
Raise(e) ==
    /\ pc' = "except"
    /\ exc' = <<e>>

\* An exception raised outside the try block leaves main.
Escape(e) ==
    /\ pc' = "crashed"
    /\ escaped' = <<e>>

\* analyzer = StockSentimentAnalyzer()
Construct ==
    /\ pc = "construct"
    /\ \/ /\ pc' = "input"
          /\ UNCHANGED escaped
       \/ \E e \in ConstructErrors : Escape(e)
    /\ UNCHANGED <<stock_symbol, matching, requests, posts_df, avg_sentiment,
                   stock_data, prediction, posts, row, output, exc, calls>>

\* stock_symbol = input("Enter stock symbol (e.g., AAPL): ").upper()
ReadSymbol ==
    /\ pc = "input"
    /\ output' = Append(output, [kind |-> "prompt"])
    /\ \/ \E line \in InputLines :
            /\ stock_symbol' = Upper(line)
            /\ pc' = "predict"
            /\ UNCHANGED escaped
       \/ /\ Escape(EOFError)
          /\ UNCHANGED stock_symbol
    /\ UNCHANGED <<matching, requests, posts_df, avg_sentiment, stock_data,
                   prediction, posts, row, exc, calls>>

\* predict_trend searching a second time after a failed search.
PredictFetchRetry ==
    /\ pc = "predict"
    /\ \E m \in Matches :
        /\ matching' = <<m>>
        /\ \/ /\ requests' = Append(requests, SearchRequest(stock_symbol, DefaultLimit, Ok))
              /\ posts_df' = get_reddit_posts(Listing(m), DefaultLimit)
              /\ pc' = "score"
              /\ UNCHANGED exc
           \/ \E e \in SearchErrors :
                /\ requests' = Append(requests, SearchRequest(stock_symbol, DefaultLimit, e))
                /\ IF requests = <<>>
                   THEN UNCHANGED <<pc, exc>>
                   ELSE Raise(e)
                /\ UNCHANGED posts_df
    /\ UNCHANGED <<stock_symbol, avg_sentiment, stock_data, prediction, posts,
                   row, output, escaped, calls>>

\* predict_trend: posts_df = self.get_reddit_posts(stock_symbol)
PredictFetch ==
    /\ pc = "predict"
    /\ \E m \in Matches :
        /\ matching' = <<m>>
        /\ \/ /\ requests' = Append(requests, SearchRequest(stock_symbol, DefaultLimit, Ok))
              /\ posts_df' = get_reddit_posts(Listing(m), DefaultLimit)
              /\ pc' = "score"
              /\ UNCHANGED exc
           \/ \E e \in SearchErrors :
                /\ requests' = Append(requests, SearchRequest(stock_symbol, DefaultLimit, e))
                /\ Raise(e)
                /\ UNCHANGED posts_df
    /\ UNCHANGED <<stock_symbol, avg_sentiment, stock_data, prediction, posts,
                   row, output, escaped, calls>>

\* predict_trend: the sentiment column and its mean
PredictScore ==
    /\ pc = "score"
    /\ IF "text" \in Columns(posts_df)
       THEN /\ posts_df' = WithSentiment(posts_df)
            /\ avg_sentiment' = <<Mean(SentimentColumn(posts_df'))>>
            /\ pc' = "history"
            /\ UNCHANGED exc
       ELSE /\ Raise(KeyErrorText)
            /\ UNCHANGED <<posts_df, avg_sentiment>>
    /\ UNCHANGED <<stock_symbol, matching, requests, stock_data, prediction,
                   posts, row, output, escaped, calls>>

\* predict_trend going on without price history when its fetch fails.
PredictHistoryPartial ==
    /\ pc = "history"
    /\ \/ \E h \in Histories :
            /\ requests' = Append(requests, HistoryRequest(stock_symbol, Ok))
            /\ stock_data' = h
       \/ \E e \in HistoryErrors :
            /\ requests' = Append(requests, HistoryRequest(stock_symbol, e))
            /\ stock_data' = <<>>
    /\ pc' = "classify"
    /\ UNCHANGED <<stock_symbol, matching, posts_df, avg_sentiment, prediction,
                   posts, row, output, exc, escaped, calls>>

\* predict_trend: stock_data = self.get_stock_data(stock_symbol)
PredictHistory ==
    /\ pc = "history"
    /\ \/ \E h \in Histories :
            /\ requests' = Append(requests, HistoryRequest(stock_symbol, Ok))
            /\ stock_data' = h
            /\ pc' = "classify"
            /\ UNCHANGED exc
       \/ \E e \in HistoryErrors :
            /\ requests' = Append(requests, HistoryRequest(stock_symbol, e))
            /\ Raise(e)
            /\ UNCHANGED stock_data
    /\ UNCHANGED <<stock_symbol, matching, posts_df, avg_sentiment, prediction,
                   posts, row, output, escaped, calls>>

\* predict_trend returns; prediction = analyzer.predict_trend(stock_symbol)
PredictClassify ==
    /\ pc = "classify"
    /\ prediction' = Classify(avg_sentiment[1])
    /\ pc' = "report"
    /\ UNCHANGED <<stock_symbol, matching, requests, posts_df, avg_sentiment,
                   stock_data, posts, row, output, exc, escaped, calls>>

\* The sample fetched before the prediction is printed.
PrintPredictionLate ==
    /\ pc = "report"
    /\ pc' = "sample"
    /\ UNCHANGED <<stock_symbol, matching, requests, posts_df, avg_sentiment,
                   stock_data, prediction, posts, row, output, exc, escaped, calls>>

\* print(f"\nAnalysis for {stock_symbol}:"); print(prediction)
PrintPrediction ==
    /\ pc = "report"
    /\ output' = output \o <<[kind |-> "analysis", symbol |-> stock_symbol],
                             [kind |-> "prediction", label |-> prediction]>>
    /\ pc' = "sample"
    /\ UNCHANGED <<stock_symbol, matching, requests, posts_df, avg_sentiment,
                   stock_data, prediction, posts, row, exc, escaped, calls>>

\* posts = analyzer.get_reddit_posts(stock_symbol, limit=5) and the heading
SampleFetch ==
    /\ pc = "sample"
    /\ \/ /\ requests' = Append(requests, SearchRequest(stock_symbol, SampleLimit, Ok))
          /\ posts' = get_reddit_posts(Listing(matching[1]), SampleLimit)
          /\ output' = Append(output, [kind |-> "recent"])
          /\ pc' = "rows"
          /\ UNCHANGED exc
       \/ \E e \in SearchErrors :
            /\ requests' = Append(requests, SearchRequest(stock_symbol, SampleLimit, e))
            /\ Raise(e)
            /\ UNCHANGED <<posts, output>>
    /\ UNCHANGED <<stock_symbol, matching, posts_df, avg_sentiment, stock_data,
                   prediction, row, escaped, calls>>

\* for _, post in posts.iterrows(): the title and the sentiment of one row
SamplePrint ==
    /\ pc = "rows"
    /\ row < Len(posts)
    /\ row' = row + 1
    /\ output' = output \o
          <<[kind |-> "title", title |-> posts[row'].title],
            [kind |-> "sentiment",
             value |-> Format2(analyze_sentiment(posts[row'].text))]>>
    /\ UNCHANGED <<pc, stock_symbol, matching, requests, posts_df, avg_sentiment,
                   stock_data, prediction, posts, exc, escaped, calls>>

\* the loop is over: main returns
SampleEnd ==
    /\ pc = "rows"
    /\ row = Len(posts)
    /\ pc' = "done"
    /\ UNCHANGED <<stock_symbol, matching, requests, posts_df, avg_sentiment,
                   stock_data, prediction, posts, row, output, exc, escaped, calls>>

\* except Exception as e: print(f"Error: {str(e)}")
Except ==
    /\ pc = "except"
    /\ output' = Append(output, [kind |-> "error", text |-> exc[1].msg])
    /\ pc' = "done"
    /\ UNCHANGED <<stock_symbol, matching, requests, posts_df, avg_sentiment,
                   stock_data, prediction, posts, row, exc, escaped, calls>>

Next ==
    \/ Construct
    \/ ReadSymbol
    \/ PredictFetch
    \/ PredictScore
    \/ PredictHistory
    \/ PredictClassify
    \/ PrintPrediction
    \/ SampleFetch
    \/ SamplePrint
    \/ SampleEnd
    \/ Except

Spec == Init /\ [][Next]_vars

(***************************************************************************)
(* Two predict_trend calls side by side                                    *)
(***************************************************************************)
PairTexts == {"", "slightly up", "looks good", "solid quarter",
              "terrible crash, selling everything"}

Reverse(l) == [i \in DOMAIN l |-> l[Len(l) + 1 - i]]
Rotate(l) == IF l = <<>> THEN l ELSE Tail(l) \o <<Head(l)>>

\* What a second search may deliver in place of l: the same posts, the same
\* bodies with other titles, votes and times, the same scores in other
\* words, or the same posts in another order.
Variants(l) ==
    {l,
     [i \in DOMAIN l |-> Retitled(l[i])],
     [i \in DOMAIN l |-> Reworded(Retitled(l[i]))],
     Reverse(l),
     Rotate(l)}

HistoryOk(h) == [ok |-> TRUE, data |-> h, err |-> Ok]
HistoryFailed(e) == [ok |-> FALSE, data |-> <<>>, err |-> e]

Call(listing, history) == [listing |-> listing, history |-> history, out |-> <<>>]

InitPair ==
    /\ pc = "construct"
    /\ stock_symbol = <<>>
    /\ matching = <<>>
    /\ requests = <<>>
    /\ posts_df = <<>>
    /\ avg_sentiment = <<>>
    /\ stock_data = <<>>
    /\ prediction = ""
    /\ posts = <<>>
    /\ row = 0
    /\ output = <<>>
    /\ exc = <<>>
    /\ escaped = <<>>
    /\ \E la \in SeqsUpTo({SelfPost(t) : t \in PairTexts}, MaxBatch) :
       \E lb \in Variants(la) :
       \E ha \in {HistoryOk(<<>>)} \cup {HistoryFailed(e) : e \in HistoryErrors} :
       \E hb \in {HistoryOk(h) : h \in Histories} :
          calls = [a |-> Call(la, ha), b |-> Call(lb, hb)]

\* One of the two calls runs to its end.
PairCall(k) ==
    /\ calls[k].out = <<>>
    /\ calls' = [calls EXCEPT
                   ![k].out = <<predict_trend(calls[k].listing, calls[k].history)>>]
    /\ UNCHANGED mainVars

NextPair == \E k \in {"a", "b"} : PairCall(k)

SpecPair == InitPair /\ [][NextPair]_vars

(***************************************************************************)
(* Properties                                                              *)
(***************************************************************************)
PredictRequest(r) ==
    \/ r.api = "history"
    \/ r.api = "search" /\ r.limit = DefaultLimit

SampleRequest(r) == r.api = "search" /\ r.limit = SampleLimit

Printed(kind) == \E i \in DOMAIN output : output[i].kind = kind

\* C1: whenever predict_trend has returned a label for the mean m it
\* computed, the label is Bullish exactly when m > 0.2, Bearish exactly when
\* m < -0.2 and Neutral otherwise; m = 0.2 and m = -0.2 give Neutral.
C1_ThresholdLabels ==
    prediction # "" =>
        LET m == avg_sentiment[1]
        IN  /\ prediction \in {Bullish, Bearish, Neutral}
            /\ prediction = Bullish <=> FGt(m, FromTenths(2))
            /\ prediction = Bearish <=> FLt(m, FromTenths(-2))
            /\ prediction = Neutral <=>
                   ~FGt(m, FromTenths(2)) /\ ~FLt(m, FromTenths(-2))
            /\ m \in {FromTenths(2), FromTenths(-2)} => prediction = Neutral

\* A run whose mean is exactly 0.2 has ended with the Neutral label.
C1_BoundaryReached ==
    /\ pc = "done"
    /\ avg_sentiment = <<FromTenths(2)>>
    /\ prediction = Neutral

\* C2: when the post fetch returned zero posts, predict_trend does not end
\* in an error raised while scoring or averaging the empty batch.
C2_EmptyBatchHandled ==
    (/\ pc \in {"except", "done"}
     /\ Len(requests) = 1
     /\ requests[1].outcome = Ok
     /\ Len(posts_df) = 0)
        => exc = <<>>

\* C3: no exception raised at any step of main leaves main.
C3_NoExceptionLeavesMain == pc # "crashed" /\ escaped = <<>>

\* C4: if the post search or the price-history fetch of predict_trend
\* failed, predict_trend has returned no label and the failure is with the
\* caller, also when the mean had already been computed.
C4_NoPartialResult ==
    \A i \in DOMAIN requests :
        (PredictRequest(requests[i]) /\ requests[i].outcome # Ok) =>
            /\ prediction = ""
            /\ ~Printed("prediction")
            /\ pc \in {"except", "done"}
            /\ exc = <<requests[i].outcome>>

\* The price-history fetch failed after the mean was computed.
C4_HistoryFailedAfterMean ==
    /\ pc = "done"
    /\ Len(requests) = 2
    /\ requests[1].outcome = Ok
    /\ requests[2].outcome \in HistoryErrors
    /\ avg_sentiment # <<>>
    /\ prediction = ""

\* C5: get_reddit_posts with an empty symbol or a limit <= 0 fails with an
\* InvalidArgument error before any request is sent.
C5_InvalidArgumentRejected ==
    /\ \A i \in DOMAIN requests :
          requests[i].api = "search" =>
              requests[i].query # Query(<<>>) /\ requests[i].limit > 0
    /\ (stock_symbol = <<>> /\ pc \in {"except", "done"}) =>
          exc # <<>> /\ exc[1].type = "InvalidArgument"

\* C6: within predict_trend the post search and the price-history fetch are
\* each issued at most once; a failed request is the last one issued and its
\* error is the one the caller gets.
C6_NoRetry ==
    /\ Cardinality({i \in DOMAIN requests :
          requests[i].api = "search" /\ requests[i].limit = DefaultLimit}) <= 1
    /\ Cardinality({i \in DOMAIN requests : requests[i].api = "history"}) <= 1
    /\ \A i \in DOMAIN requests :
          (PredictRequest(requests[i]) /\ requests[i].outcome # Ok) =>
              /\ i = Len(requests)
              /\ exc = <<requests[i].outcome>>

\* The post search failed and main has printed its error.
C6_SearchFailedOnce ==
    /\ pc = "done"
    /\ Len(requests) = 1
    /\ requests[1].outcome \in SearchErrors
    /\ exc = <<requests[1].outcome>>

BodyScores(listing) == [i \in DOMAIN listing |-> analyze_sentiment(listing[i].selftext)]

BothReturned ==
    /\ calls.a.out # <<>> /\ calls.a.out[1].exc = <<>>
    /\ calls.b.out # <<>> /\ calls.b.out[1].exc = <<>>

\* C7: two predict_trend calls whose fetched posts have the same body
\* scores return the same label, whatever the titles, votes, creation times
\* and price histories are.
C7_LabelFromBodyScores ==
    (BothReturned /\ BodyScores(calls.a.listing) = BodyScores(calls.b.listing))
        => calls.a.out[1].label = calls.b.out[1].label

\* Two calls have returned a Bearish label for posts that differ in title,
\* votes, time and wording and for different price histories.
C7_DifferentPostsSameScores ==
    /\ BothReturned
    /\ BodyScores(calls.a.listing) = BodyScores(calls.b.listing)
    /\ \A i \in DOMAIN calls.a.listing :
          /\ calls.a.listing[i].title # calls.b.listing[i].title
          /\ calls.a.listing[i].score # calls.b.listing[i].score
          /\ calls.a.listing[i].created_utc # calls.b.listing[i].created_utc
    /\ \E i \in DOMAIN calls.a.listing :
          calls.a.listing[i].selftext # calls.b.listing[i].selftext
    /\ calls.a.history # calls.b.history
    /\ calls.a.out[1].label = Bearish

Count(a, v) == Cardinality({i \in DOMAIN a : a[i] = v})

IsPermutation(a, b) ==
    /\ Len(a) = Len(b)
    /\ \A i \in DOMAIN a : Count(a, a[i]) = Count(b, a[i])

\* C8: for a non-empty batch the mean predict_trend uses is the sum of the
\* scores divided by their number, and is the same for every permutation of
\* the batch.
C8_MeanOrderIndependent ==
    (/\ BothReturned
     /\ IsPermutation(BodyScores(calls.a.listing), BodyScores(calls.b.listing)))
        => /\ calls.a.out[1].avg[1] =
                FDivCount(AddFrom(FZero, BodyScores(calls.a.listing), 1),
                          Len(calls.a.listing))
           /\ calls.a.out[1].avg = calls.b.out[1].avg

SameRows(df, listing) ==
    /\ Len(df) <= Len(listing)
    /\ \A i \in DOMAIN df :
          /\ df[i].title = listing[i].title
          /\ df[i].text = listing[i].selftext
          /\ df[i].score = listing[i].score

\* C9: get_reddit_posts with limit L returns at most L rows, in the order
\* the search delivered them: at most 100 for predict_trend and at most 5
\* for main's sample.
C9_AtMostLimit ==
    matching # <<>> =>
        /\ Len(posts_df) <= DefaultLimit
        /\ SameRows(posts_df, Listing(matching[1]))
        /\ Len(posts) <= SampleLimit
        /\ SameRows(posts, Listing(matching[1]))
        /\ Cardinality({i \in DOMAIN output : output[i].kind = "title"}) <= SampleLimit

\* More than 100 posts matched: 100 were averaged and 5 shown.
C9_Truncated ==
    /\ pc = "done"
    /\ Len(Listing(matching[1])) > DefaultLimit
    /\ Len(posts_df) = DefaultLimit
    /\ Len(posts) = SampleLimit
    /\ row = SampleLimit

\* C10: the external calls of a run are, in this order, the post search
\* with limit 100, the price-history fetch and the post search with limit 5;
\* the last is issued only after predict_trend has returned a label and the
\* label has been printed, and a run whose predict_trend failed prints no
\* label, fetches no sample and prints no sample post.
C10_CallOrder ==
    /\ Len(requests) <= 3
    /\ \A i \in DOMAIN requests :
          /\ i = 1 => requests[i].api = "search" /\ requests[i].limit = DefaultLimit
          /\ i = 2 => requests[i].api = "history"
          /\ i = 3 => SampleRequest(requests[i])
          /\ i < Len(requests) => requests[i].outcome = Ok
          /\ SampleRequest(requests[i]) => prediction # "" /\ Printed("prediction")
    /\ prediction = "" =>
          /\ ~Printed("prediction")
          /\ ~Printed("recent")
          /\ ~Printed("title")
          /\ \A i \in DOMAIN requests : ~SampleRequest(requests[i])

\* A run made all three calls and printed five sample posts.
C10_AllThreeCalls ==
    /\ pc = "done"
    /\ Len(requests) = 3
    /\ \A i \in DOMAIN requests : requests[i].outcome = Ok
    /\ Printed("prediction")
    /\ row = SampleLimit

====
